---- MODULE Spec2Model ----
(***************************************************************************)
(* Orchestration layer of the multi-modal AI platform: the sliding-window  *)
(* rate limiter and its http middleware chain (backend/middleware), and    *)
(* the background TaskManager with its periodic cleanup (backend/main.py). *)
(* Time is the integer clock `now`; one event-loop step is one action.     *)
(***************************************************************************)
EXTENDS Integers, Sequences, FiniteSets, TLC

VARIABLES
    now,             \* the wall clock read by time.time() / datetime.now()
    request_counts,  \* RateLimiter.request_counts: client id -> list of instants
    reqs,            \* http requests in the order they reach is_allowed
    tasks,           \* TaskManager.tasks: task id -> record
    runner,          \* position of the _runner scheduled for each task id
    work,            \* the unit of work (coro) handed to create_task, per id
    ended_at,        \* history: instant the unit of work of the task ended, 0 before
    accepted,        \* history: how often create_task accepted each id
    last,            \* history: the call made by the latest step, with its result
    lock,            \* TaskManager.lock: "free", or the holder
    cleanup_loop,    \* _cleanup_loop: "sleeping" between passes, "stopped" if it died
    cache,           \* InMemoryCache.cache: key -> value
    expiry,          \* InMemoryCache.expiry: key -> instant
    written,         \* history: per key, the latest set that no delete or clear undid
    rag,             \* the RAGService call in progress, with its start_time
    service,         \* main.py rag_service: "RAGService", "stub", "None"
    cache_lock,      \* InMemoryCache.lock: "free", or the thread that holds it
    frame            \* per thread, the InMemoryCache call it is executing

rlvars == <<request_counts, reqs>>
tmvars == <<tasks, runner, work, ended_at, accepted, last, lock, cleanup_loop>>
cachevars == <<cache, expiry, written>>
ragvars == <<rag, service>>
thvars == <<cache_lock, frame>>
svcvars == <<cachevars, ragvars, thvars>>
vars == <<now, request_counts, reqs, tasks, runner, work, ended_at, accepted,
          last, lock, cleanup_loop, cache, expiry, written, rag, service,
          cache_lock, frame>>

(***************************************************************************)
(* Bounds of the model                                                     *)
(***************************************************************************)
requests_per_minute == 2      \* RateLimiter(requests_per_minute=60), scaled
window_seconds == 2           \* window_seconds default 60, scaled
MaxTime == 4                  \* the clock stops advancing here
MaxInFlight == 2              \* http requests not yet answered
MaxCreates == 3               \* create_task calls accepted in one run
MaxAge == 1                   \* largest max_age_seconds passed to cleanup
default_ttl == 2              \* InMemoryCache(default_ttl=300), scaled
MaxTtl == 2                   \* largest ttl passed to set
MaxDocs == 2                  \* documents the retriever hands to the chain
MaxContent == 2               \* longest page_content
content_limit == 1            \* the 200 characters kept of a page_content, scaled

MaxReq == requests_per_minute + 2
Clients == {"k1", "ip2"}

(***************************************************************************)
(* RateLimiter.is_allowed                                                  *)
(***************************************************************************)
\* mutant: the comparison keeps an instant that is exactly one window old
Fresh_inclusive(timestamp, current_time) ==
    current_time - timestamp <= window_seconds

Fresh(timestamp, current_time) ==
    current_time - timestamp < window_seconds

\* mutant: the clean-up is skipped, every instant is kept
Prune_keepall(client_requests, current_time) ==
    client_requests

\* "Clean up old timestamps": the list comprehension over client_requests
Prune(client_requests, current_time) ==
    SelectSeq(client_requests, LAMBDA timestamp : Fresh(timestamp, current_time))

\* mutant: off by one, the limit is exceeded only above requests_per_minute
LimitExceeded_offbyone(client_requests) ==
    Len(client_requests) > requests_per_minute

LimitExceeded(client_requests) ==
    Len(client_requests) >= requests_per_minute

\* mutant: the instant is appended to a copy and never reaches the shared map
AddCurrentRequest_lost(client_requests, current_time) ==
    client_requests

\* "Add current request"
AddCurrentRequest(client_requests, current_time) ==
    Append(client_requests, current_time)

\* the value is_allowed returns for client_id at current_time
is_allowed(client_id, current_time) ==
    ~LimitExceeded(Prune(request_counts[client_id], current_time))

\* mutant: the instant of a rejected call is recorded as well
CountsAfter_countrejected(client_id, current_time) ==
    [request_counts EXCEPT ![client_id] =
        AddCurrentRequest(Prune(request_counts[client_id], current_time),
                          current_time)]

\* request_counts after is_allowed(client_id) at current_time
CountsAfter(client_id, current_time) ==
    LET pruned == Prune(request_counts[client_id], current_time)
    IN  [request_counts EXCEPT ![client_id] =
            IF LimitExceeded(pruned) THEN pruned
            ELSE AddCurrentRequest(pruned, current_time)]

(***************************************************************************)
(* The http middleware chain. main.py attaches rate_limit_middleware, then *)
(* monitoring_middleware, then security_middleware, so a request passes    *)
(* security -> monitoring -> rate_limit -> route handler, and its response *)
(* or exception travels back the same way.                                 *)
(***************************************************************************)
HTTP_429_TOO_MANY_REQUESTS == 429
HandlerStatuses == {200, 401}

InFlight == {i \in 1..Len(reqs) : reqs[i].pc # "done"}

\* rate_limit_middleware up to its await: is_allowed, then either raise
\* HTTPException(429) or hand the request to call_next.
RateLimitMiddleware(c) ==
    /\ Len(reqs) < MaxReq
    /\ Cardinality(InFlight) < MaxInFlight
    /\ LET ok == is_allowed(c, now)
       IN  reqs' = Append(reqs,
                [client |-> c, at |-> now, allowed |-> ok,
                 pc |-> IF ok THEN "call_next" ELSE "raised",
                 next_calls |-> IF ok THEN 1 ELSE 0,
                 kind |-> "none",
                 status |-> IF ok THEN 0 ELSE HTTP_429_TOO_MANY_REQUESTS,
                 logged |-> 0])
    /\ request_counts' = CountsAfter(c, now)
    /\ UNCHANGED <<now, tmvars, svcvars>>

\* call_next returns the handler's response: rate_limit_middleware returns it,
\* monitoring_middleware logs its status, security_middleware adds headers.
CallNextReturns(i, s) ==
    /\ i \in 1..Len(reqs)
    /\ reqs[i].pc = "call_next"
    /\ reqs' = [reqs EXCEPT ![i].pc = "done", ![i].kind = "response",
                            ![i].status = s, ![i].logged = s]
    /\ UNCHANGED <<now, request_counts, tmvars, svcvars>>

\* The HTTPException raised by rate_limit_middleware reaches the except branch
\* of monitoring_middleware, which logs a 500 response and re-raises; the
\* security middleware has no handler, so the exception leaves the chain.
MonitoringExcept(i) ==
    /\ i \in 1..Len(reqs)
    /\ reqs[i].pc = "raised"
    /\ reqs' = [reqs EXCEPT ![i].pc = "done", ![i].kind = "exception",
                            ![i].logged = 500]
    /\ UNCHANGED <<now, request_counts, tmvars, svcvars>>

(***************************************************************************)
(* TaskManager (backend/main.py)                                           *)
(***************************************************************************)
TaskIds == {"a", "b"}
None == "None"

\* What a unit of work does once awaited: return val, raise Exception(val),
\* or never finish.
WorkUnits ==
    { [kind |-> "ok", val |-> "r1"], [kind |-> "ok", val |-> None],
      [kind |-> "raise", val |-> "boom"], [kind |-> "hang", val |-> ""] }
NoWork == [kind |-> "none", val |-> ""]

NoCall == [op |-> "none", id |-> "", arg |-> 0, res |-> ""]
Call(op, id, arg, res) == [op |-> op, id |-> id, arg |-> arg, res |-> res]

TotalAccepted == accepted["a"] + accepted["b"]

\* the dict stored by create_task
NewRecord(task_id) ==
    [id |-> task_id, status |-> "pending", created_at |-> now, result |-> None]

\* t.get("completed_at") is truthy: the key is set, and not to 0
HasCompletedAt(t) == "completed_at" \in DOMAIN t /\ t.completed_at # 0

\* mutant: no membership test, a duplicate id silently overwrites the record
\* and schedules a second runner
CreateTask_overwrite(task_id, coro) ==
    /\ TotalAccepted < MaxCreates
    /\ lock = "free" /\ lock' = "free"
    /\ tasks' = (task_id :> NewRecord(task_id)) @@ tasks
    /\ runner' = [runner EXCEPT ![task_id] = "scheduled"]
    /\ work' = [work EXCEPT ![task_id] = coro]
    /\ ended_at' = [ended_at EXCEPT ![task_id] = 0]
    /\ accepted' = [accepted EXCEPT ![task_id] = @ + 1]
    /\ last' = Call("create_task", task_id, 0, "ok")
    /\ UNCHANGED <<now, rlvars, svcvars, cleanup_loop>>

\* mutant: create_task awaits the unit of work itself before it returns
CreateTask_inline(task_id, coro) ==
    /\ TotalAccepted < MaxCreates
    /\ lock = "free" /\ lock' = "free"
    /\ task_id \notin DOMAIN tasks
    /\ coro.kind = "ok"
    /\ tasks' = (task_id :> (("completed_at" :> now) @@
                    [NewRecord(task_id) EXCEPT !.status = "completed",
                                               !.result = coro.val])) @@ tasks
    /\ runner' = [runner EXCEPT ![task_id] = "done"]
    /\ work' = [work EXCEPT ![task_id] = coro]
    /\ ended_at' = [ended_at EXCEPT ![task_id] = now]
    /\ accepted' = [accepted EXCEPT ![task_id] = @ + 1]
    /\ last' = Call("create_task", task_id, 0, "ok")
    /\ UNCHANGED <<now, rlvars, svcvars, cleanup_loop>>

\* create_task(task_id, coro): under the lock, raise ValueError for an id in
\* the table, else store the pending record and schedule _runner on the loop.
CreateTask(task_id, coro) ==
    /\ TotalAccepted < MaxCreates
    /\ lock = "free" /\ lock' = "free"
    /\ IF task_id \in DOMAIN tasks
       THEN /\ last' = Call("create_task", task_id, 0, "ValueError")
            /\ UNCHANGED <<tasks, runner, work, ended_at, accepted>>
       ELSE /\ tasks' = (task_id :> NewRecord(task_id)) @@ tasks
            /\ runner' = [runner EXCEPT ![task_id] = "scheduled"]
            /\ work' = [work EXCEPT ![task_id] = coro]
            /\ ended_at' = [ended_at EXCEPT ![task_id] = 0]
            /\ accepted' = [accepted EXCEPT ![task_id] = @ + 1]
            /\ last' = Call("create_task", task_id, 0, "ok")
    /\ UNCHANGED <<now, rlvars, svcvars, cleanup_loop>>

\* mutant: the runner takes the manager's lock and keeps it while the unit runs
RunnerStart_locked(task_id) ==
    /\ lock = "free" /\ lock' = task_id
    /\ runner[task_id] = "scheduled"
    /\ tasks' = [tasks EXCEPT ![task_id].status = "running"]
    /\ runner' = [runner EXCEPT ![task_id] = "awaiting"]
    /\ last' = NoCall
    /\ UNCHANGED <<now, rlvars, svcvars, cleanup_loop, work, ended_at, accepted>>

\* mutant: the runner starts the unit of work without marking the task running
RunnerStart_skip(task_id) ==
    /\ UNCHANGED lock
    /\ runner[task_id] = "scheduled"
    /\ runner' = [runner EXCEPT ![task_id] = "awaiting"]
    /\ last' = NoCall
    /\ UNCHANGED <<now, rlvars, svcvars, cleanup_loop, tasks, work, ended_at, accepted>>

\* _runner, first line: status = "running", then it awaits the unit of work
RunnerStart(task_id) ==
    /\ UNCHANGED lock
    /\ runner[task_id] = "scheduled"
    /\ tasks' = [tasks EXCEPT ![task_id].status = "running"]
    /\ runner' = [runner EXCEPT ![task_id] = "awaiting"]
    /\ last' = NoCall
    /\ UNCHANGED <<now, rlvars, svcvars, cleanup_loop, work, ended_at, accepted>>

\* the record after the try branch: result, status, completed_at
Completed(t, result) ==
    ("completed_at" :> now) @@
        [t EXCEPT !.result = result, !.status = "completed"]

\* the record after the except branch: status, error
Failed(t, e) ==
    ("error" :> e) @@ [t EXCEPT !.status = "failed"]

\* mutant: the except branch only logs and the record stays as it was
RunnerFinish_swallow(task_id) ==
    /\ UNCHANGED lock
    /\ runner[task_id] = "awaiting"
    /\ work[task_id].kind \in {"ok", "raise"}
    /\ tasks' = [tasks EXCEPT ![task_id] =
                    IF work[task_id].kind = "ok"
                    THEN Completed(@, work[task_id].val)
                    ELSE @]
    /\ runner' = [runner EXCEPT ![task_id] = "done"]
    /\ ended_at' = [ended_at EXCEPT ![task_id] = now]
    /\ last' = NoCall
    /\ UNCHANGED <<now, rlvars, svcvars, cleanup_loop, work, accepted>>

\* _runner after `await coro`: the unit of work returned or raised
RunnerFinish(task_id) ==
    /\ UNCHANGED lock
    /\ runner[task_id] = "awaiting"
    /\ work[task_id].kind \in {"ok", "raise"}
    /\ tasks' = [tasks EXCEPT ![task_id] =
                    IF work[task_id].kind = "ok"
                    THEN Completed(@, work[task_id].val)
                    ELSE Failed(@, work[task_id].val)]
    /\ runner' = [runner EXCEPT ![task_id] = "done"]
    /\ ended_at' = [ended_at EXCEPT ![task_id] = now]
    /\ last' = NoCall
    /\ UNCHANGED <<now, rlvars, svcvars, cleanup_loop, work, accepted>>

\* mutant: every record with a completed_at is collected, whatever its age
ToDelete_anyage(max_age_seconds) ==
    { tid \in DOMAIN tasks : HasCompletedAt(tasks[tid]) }

\* mutant: records are collected by their age since creation, finished or not
ToDelete_bycreation(max_age_seconds) ==
    { tid \in DOMAIN tasks : (now - tasks[tid].created_at) > max_age_seconds }

\* the ids cleanup_completed_tasks(max_age_seconds) collects in to_delete
ToDelete(max_age_seconds) ==
    { tid \in DOMAIN tasks :
        /\ HasCompletedAt(tasks[tid])
        /\ (now - tasks[tid].completed_at) > max_age_seconds }

\* cleanup_completed_tasks(max_age_seconds), called by _cleanup_loop
CleanupCompletedTasks(max_age_seconds) ==
    /\ lock = "free" /\ lock' = "free"
    /\ tasks' = [tid \in DOMAIN tasks \ ToDelete(max_age_seconds) |-> tasks[tid]]
    /\ last' = Call("cleanup_completed_tasks", "", max_age_seconds, "ok")
    /\ UNCHANGED <<now, rlvars, svcvars, cleanup_loop, runner, work, ended_at, accepted>>

\* One iteration of _cleanup_loop: a pass of cleanup_completed_tasks() with
\* the default age (scaled to MaxAge); an exception raised by the pass is
\* caught and logged; then the loop sleeps until the next pass.
CleanupLoop(fails) ==
    /\ cleanup_loop = "sleeping"
    /\ lock = "free" /\ lock' = "free"
    /\ tasks' = IF fails THEN tasks
                ELSE [tid \in DOMAIN tasks \ ToDelete(MaxAge) |-> tasks[tid]]
    /\ cleanup_loop' = "sleeping"
    /\ last' = Call("_cleanup_loop", "", MaxAge, IF fails THEN "logged" ELSE "ok")
    /\ UNCHANGED <<now, rlvars, svcvars, runner, work, ended_at, accepted>>

\* mutant: the table is indexed directly, an unknown id raises KeyError
GetTaskStatus_keyerror(task_id) ==
    /\ last' = IF task_id \in DOMAIN tasks
               THEN [op |-> "get_task_status", id |-> task_id, arg |-> 200,
                     res |-> "record", rec |-> tasks[task_id]]
               ELSE [op |-> "get_task_status", id |-> task_id, arg |-> 500,
                     res |-> "KeyError", rec |-> <<>>]
    /\ UNCHANGED <<now, rlvars, svcvars, tasks, runner, work, ended_at, accepted,
                   lock, cleanup_loop>>

\* get_task_status(task_id) as called by the /tasks/{task_id} route:
\* self.tasks.get(task_id), and the route answers 404 for a falsy result.
\* res is "record" with the record in rec, or None; arg is the route's status.
GetTaskStatus(task_id) ==
    /\ last' = IF task_id \in DOMAIN tasks
               THEN [op |-> "get_task_status", id |-> task_id, arg |-> 200,
                     res |-> "record", rec |-> tasks[task_id]]
               ELSE [op |-> "get_task_status", id |-> task_id, arg |-> 404,
                     res |-> None, rec |-> <<>>]
    /\ UNCHANGED <<now, rlvars, svcvars, tasks, runner, work, ended_at, accepted,
                   lock, cleanup_loop>>

(***************************************************************************)
(* InMemoryCache (backend/Services/cache.py). Every method body runs under *)
(* threading.Lock, so each call is one step. An Optional[int] is the empty *)
(* sequence for None and <<t>> for the integer t.                          *)
(***************************************************************************)
Keys == {"k1", "k2"}
Values == {"v1", "v2", None}
Ttls == {<<>>} \cup {<<t>> : t \in 0..MaxTtl}
NoWrite == [v |-> None, at |-> 0, ttl |-> <<>>, by |-> "none"]

\* mutant: removing one key empties the whole map
Drop_all(f, key) ==
    <<>>

Drop(f, key) == [x \in DOMAIN f \ {key} |-> f[x]]

\* `time.time() > self.expiry[key]`
Expired(key) == now > expiry[key]

\* what get(key) returns
GetResult(key) ==
    IF key \notin DOMAIN cache THEN None
    ELSE IF Expired(key) THEN None
    ELSE cache[key]

\* mutant: an expired entry reads as absent but stays in the value map
CacheAfterGet_keep(key) ==
    cache

\* the value map and the expiry map after get(key)
CacheAfterGet(key) ==
    IF key \in DOMAIN cache /\ Expired(key) THEN Drop(cache, key) ELSE cache

ExpiryAfterGet(key) ==
    IF key \in DOMAIN cache /\ Expired(key) THEN Drop(expiry, key) ELSE expiry

\* `ttl or self.default_ttl`
TtlOrDefault(ttl) ==
    IF ttl = <<>> THEN default_ttl
    ELSE IF ttl[1] = 0 THEN default_ttl
    ELSE ttl[1]

\* get(key); the call record keeps what the maps held for key before the call
Get(key) ==
    /\ cache' = CacheAfterGet(key)
    /\ expiry' = ExpiryAfterGet(key)
    /\ last' = [op |-> "get", id |-> key, arg |-> 0, res |-> GetResult(key),
                exp |-> IF key \in DOMAIN expiry THEN <<expiry[key]>> ELSE <<>>,
                stored |-> IF key \in DOMAIN cache THEN cache[key] ELSE None]
    /\ UNCHANGED <<now, rlvars, ragvars, thvars, tasks, runner, work, ended_at, accepted, lock,
                   cleanup_loop, written>>

\* set(key, value, ttl)
Set(key, value, ttl) ==
    /\ cache' = (key :> value) @@ cache
    /\ expiry' = (key :> now + TtlOrDefault(ttl)) @@ expiry
    /\ written' = [written EXCEPT ![key] =
                      [v |-> value, at |-> now, ttl |-> ttl, by |-> "set"]]
    /\ last' = [op |-> "set", id |-> key, arg |-> 0, res |-> value, ttl |-> ttl]
    /\ UNCHANGED <<now, rlvars, ragvars, thvars, tasks, runner, work, ended_at, accepted, lock,
                   cleanup_loop>>

\* delete(key)
Delete(key) ==
    /\ cache' = Drop(cache, key)
    /\ expiry' = IF key \in DOMAIN cache THEN Drop(expiry, key) ELSE expiry
    /\ written' = [written EXCEPT ![key] = NoWrite]
    /\ last' = Call("delete", key, 0, None)
    /\ UNCHANGED <<now, rlvars, ragvars, thvars, tasks, runner, work, ended_at, accepted, lock,
                   cleanup_loop>>

\* clear()
Clear ==
    /\ cache' = <<>>
    /\ expiry' = <<>>
    /\ written' = [k \in Keys |-> NoWrite]
    /\ last' = Call("clear", "", 0, None)
    /\ UNCHANGED <<now, rlvars, ragvars, thvars, tasks, runner, work, ended_at, accepted, lock,
                   cleanup_loop>>

\* the ttl argument of the decorator that wraps the function behind a key:
\* cache_result(prefix, ttl=...) or cache_result(prefix) with ttl None
DecoratorTtl(key) ==
    IF key = "k1" THEN <<MaxTtl>> ELSE <<>>

\* One call of a function wrapped by cache_result. key is the cache key the
\* wrapper derives from prefix, function name and arguments, value is what
\* the wrapped function returns if it is invoked. arg counts invocations of
\* the wrapped function, prev is the last write under the key before the call.
CachedCall(key, value) ==
    LET result == GetResult(key)
        hit == result # None
    IN  /\ cache' = IF hit THEN cache ELSE (key :> value) @@ CacheAfterGet(key)
        /\ expiry' = IF hit THEN expiry
                     ELSE (key :> now + TtlOrDefault(DecoratorTtl(key)))
                          @@ ExpiryAfterGet(key)
        /\ written' = IF hit THEN written
                      ELSE [written EXCEPT ![key] =
                              [v |-> value, at |-> now, ttl |-> DecoratorTtl(key),
                               by |-> "cache_result"]]
        /\ last' = [op |-> "cache_result", id |-> key,
                    arg |-> IF hit THEN 0 ELSE 1,
                    res |-> IF hit THEN result ELSE value,
                    prev |-> written[key]]
        /\ UNCHANGED <<now, rlvars, ragvars, thvars, tasks, runner, work, ended_at, accepted,
                       lock, cleanup_loop>>

(***************************************************************************)
(* InMemoryCache under concurrent callers: each thread executes the body   *)
(* of a method one statement at a time, between acquiring and releasing    *)
(* self.lock. A subscript or del on a missing key raises KeyError, which   *)
(* leaves the with block and reaches the caller.                           *)
(***************************************************************************)
Threads == {"t1", "t2"}
NoFrame == [pc |-> "idle", op |-> "none", key |-> "", value |-> None,
            ttl |-> <<>>, res |-> None]

\* the calls a thread can make: get(key), set(key, value, ttl), delete(key),
\* clear()
ThreadCalls ==
    [op : {"get", "delete"}, key : Keys, value : {None}, ttl : {<<>>}]
        \cup [op : {"set"}, key : Keys, value : Values \ {None},
              ttl : {<<>>, <<MaxTtl>>}]
        \cup [op : {"clear"}, key : {""}, value : {None}, ttl : {<<>>}]

\* the first statement inside the with block of each method
FirstStatement(op) ==
    CASE op = "get" -> "get_in"
      [] op = "set" -> "set_cache"
      [] op = "delete" -> "delete_in"
      [] op = "clear" -> "clear_cache"

Goto(t, pc, res) == [frame EXCEPT ![t].pc = pc, ![t].res = res]

\* a thread calls a method and reaches `with self.lock:`
CallStarts(t, call) ==
    /\ frame[t].pc = "idle"
    /\ frame' = [frame EXCEPT ![t] =
                    [pc |-> "enter", op |-> call.op, key |-> call.key,
                     value |-> call.value, ttl |-> call.ttl, res |-> None]]
    /\ last' = NoCall
    /\ UNCHANGED <<now, rlvars, ragvars, cachevars, cache_lock, tasks, runner,
                   work, ended_at, accepted, lock, cleanup_loop>>

\* `with self.lock:` the thread waits until the lock is free and takes it
Acquire(t) ==
    /\ frame[t].pc = "enter"
    /\ cache_lock = "free" /\ cache_lock' = t
    /\ frame' = Goto(t, FirstStatement(frame[t].op), None)
    /\ last' = NoCall
    /\ UNCHANGED <<now, rlvars, ragvars, cachevars, tasks, runner, work,
                   ended_at, accepted, lock, cleanup_loop>>

\* one statement of a method body
Statement(t) ==
    LET f == frame[t]
        key == f.key
    IN  /\ f.pc \notin {"idle", "enter", "exit"}
        /\ CASE f.pc = "get_in" ->            \* if key not in self.cache: return None
                  /\ frame' = IF key \notin DOMAIN cache
                              THEN Goto(t, "exit", None)
                              ELSE Goto(t, "get_expired", None)
                  /\ UNCHANGED <<cache, expiry, written>>
             [] f.pc = "get_expired" ->       \* if time.time() > self.expiry[key]:
                  /\ frame' = IF key \notin DOMAIN expiry
                              THEN Goto(t, "exit", "KeyError")
                              ELSE IF Expired(key)
                              THEN Goto(t, "get_del_cache", None)
                              ELSE Goto(t, "get_return", None)
                  /\ UNCHANGED <<cache, expiry, written>>
             [] f.pc = "get_del_cache" ->     \* del self.cache[key]
                  /\ frame' = IF key \notin DOMAIN cache
                              THEN Goto(t, "exit", "KeyError")
                              ELSE Goto(t, "get_del_expiry", None)
                  /\ cache' = Drop(cache, key)
                  /\ UNCHANGED <<expiry, written>>
             [] f.pc = "get_del_expiry" ->    \* del self.expiry[key]; return None
                  /\ frame' = IF key \notin DOMAIN expiry
                              THEN Goto(t, "exit", "KeyError")
                              ELSE Goto(t, "exit", None)
                  /\ expiry' = Drop(expiry, key)
                  /\ UNCHANGED <<cache, written>>
             [] f.pc = "get_return" ->        \* return self.cache[key]
                  /\ frame' = IF key \notin DOMAIN cache
                              THEN Goto(t, "exit", "KeyError")
                              ELSE Goto(t, "exit", cache[key])
                  /\ UNCHANGED <<cache, expiry, written>>
             [] f.pc = "set_cache" ->         \* self.cache[key] = value
                  /\ frame' = Goto(t, "set_expiry", None)
                  /\ cache' = (key :> f.value) @@ cache
                  /\ written' = [written EXCEPT ![key] =
                                    [v |-> f.value, at |-> now, ttl |-> f.ttl,
                                     by |-> "set"]]
                  /\ UNCHANGED expiry
             [] f.pc = "set_expiry" ->        \* self.expiry[key] = time.time() + ...
                  /\ frame' = Goto(t, "exit", None)
                  /\ expiry' = (key :> now + TtlOrDefault(f.ttl)) @@ expiry
                  /\ UNCHANGED <<cache, written>>
             [] f.pc = "delete_in" ->         \* if key in self.cache:
                  /\ frame' = IF key \in DOMAIN cache
                              THEN Goto(t, "delete_cache", None)
                              ELSE Goto(t, "exit", None)
                  /\ UNCHANGED <<cache, expiry, written>>
             [] f.pc = "delete_cache" ->      \* del self.cache[key]
                  /\ frame' = IF key \notin DOMAIN cache
                              THEN Goto(t, "exit", "KeyError")
                              ELSE Goto(t, "delete_expiry", None)
                  /\ cache' = Drop(cache, key)
                  /\ written' = [written EXCEPT ![key] = NoWrite]
                  /\ UNCHANGED expiry
             [] f.pc = "delete_expiry" ->     \* del self.expiry[key]
                  /\ frame' = IF key \notin DOMAIN expiry
                              THEN Goto(t, "exit", "KeyError")
                              ELSE Goto(t, "exit", None)
                  /\ expiry' = Drop(expiry, key)
                  /\ UNCHANGED <<cache, written>>
             [] f.pc = "clear_cache" ->       \* self.cache.clear()
                  /\ frame' = Goto(t, "clear_expiry", None)
                  /\ cache' = <<>>
                  /\ written' = [k \in Keys |-> NoWrite]
                  /\ UNCHANGED expiry
             [] f.pc = "clear_expiry" ->      \* self.expiry.clear()
                  /\ frame' = Goto(t, "exit", None)
                  /\ expiry' = <<>>
                  /\ UNCHANGED <<cache, written>>
        /\ last' = NoCall
        /\ UNCHANGED <<now, rlvars, ragvars, cache_lock, tasks, runner, work,
                       ended_at, accepted, lock, cleanup_loop>>

\* the with block is left, which releases the lock if this thread holds it,
\* and the method returns or raises to its caller
Return(t) ==
    /\ frame[t].pc = "exit"
    /\ cache_lock' = IF cache_lock = t THEN "free" ELSE cache_lock
    /\ frame' = [frame EXCEPT ![t] = NoFrame]
    /\ last' = [op |-> frame[t].op, id |-> frame[t].key, arg |-> 0,
                res |-> frame[t].res, by |-> t]
    /\ UNCHANGED <<now, rlvars, ragvars, cachevars, tasks, runner, work,
                   ended_at, accepted, lock, cleanup_loop>>

(***************************************************************************)
(* RAGService (backend/Services/Rag). A text is the sequence of its pieces, *)
(* so concatenation is \o. The service is synchronous: a call starts, the  *)
(* clock may advance while the generator works, and the call returns. The  *)
(* generator's outcome is chosen when the call returns.                    *)
(***************************************************************************)
Queries == {"q1", "q2"}
Answers == {<<"ans1">>}
Messages == {"timeout", ""}
Blobs == {"None", "empty", "bytes"}
Owners == {1, 2}
UserIds == {<<>>} \cup {<<u>> : u \in Owners}
Scores == {<<>>, <<1>>}
NoRagCall == [op |-> "none", request |-> <<>>, start_time |-> 0]

\* a document stored in the vector index: length of page_content, the
\* _additional.score in its metadata if there is one, and its user_id
Docs == [len : 1..MaxContent, score : Scores, owner : Owners]

DocSeqs == UNION { [1..n -> Docs] : n \in 0..MaxDocs }

\* page_content of a document: unit i of the text is i
PageContent(doc) == [i \in 1..doc.len |-> i]

\* what the retriever of the vector store, and the chain built on it, do
Outcomes ==
    [kind : {"ok"}, answer : Answers, docs : DocSeqs, msg : {""}]
        \cup [kind : {"raise"}, answer : {<<>>}, docs : {<<>>}, msg : Messages]

MultiModalRequest(query, image_data, audio_data, video_data, user_id) ==
    [query |-> query, image_data |-> image_data, audio_data |-> audio_data,
     video_data |-> video_data, user_id |-> user_id]

Requests ==
    { MultiModalRequest(q, i, a, v, u) :
        q \in Queries, i \in Blobs, a \in Blobs, v \in Blobs, u \in UserIds }

\* a request that carries a query and a user id only
PlainRequests ==
    { r \in Requests :
        r.image_data = "None" /\ r.audio_data = "None" /\ r.video_data = "None" }

(***************************************************************************)
(* RAGConfig and RAGService.__init__                                       *)
(***************************************************************************)
ConfigArgs ==
    [weaviate_url : BOOLEAN, openai_api_key : BOOLEAN, openrouter_api_key : BOOLEAN]

\* RAGConfig.__post_init__: each field is the argument or the environment
\* variable; an OpenRouter key is exported as OPENAI_API_KEY
post_init(args, env) ==
    [weaviate_url |-> args.weaviate_url \/ env.weaviate_url,
     openai_api_key |-> args.openai_api_key \/ env.openai_api_key,
     openrouter_api_key |-> args.openrouter_api_key \/ env.openrouter_api_key,
     env_openai_api_key |-> \/ env.openai_api_key
                            \/ args.openrouter_api_key \/ env.openrouter_api_key]

\* mutant: only the vector store url is validated
validate_urlonly(config) ==
    IF ~config.weaviate_url THEN "WEAVIATE_URL is required" ELSE "ok"

\* RAGConfig.validate: the ValueError it raises, or "ok"
validate(config) ==
    IF ~config.weaviate_url THEN "WEAVIATE_URL is required"
    ELSE IF ~(\/ config.openai_api_key \/ config.openrouter_api_key
              \/ config.env_openai_api_key)
    THEN "OPENAI_API_KEY or OPENROUTER_API_KEY is required"
    ELSE "ok"

\* RAGService.__init__ with _initialize_components: the error it raises and
\* the components constructed by then
RAGService_init(config, retriever_ok, generator_ok) ==
    IF validate(config) # "ok"
    THEN [error |-> "ConfigurationError", components |-> {}]
    ELSE IF ~retriever_ok
    THEN [error |-> "RAGServiceError", components |-> {}]
    ELSE IF ~generator_ok
    THEN [error |-> "RAGServiceError", components |-> {"retriever"}]
    ELSE [error |-> "none", components |-> {"retriever", "generator"}]

\* main.py at import: the RAGService class or, if its import fails, the stub
\* class; then rag_service = RAGService(), or None if that raises
Startup(import_ok, args, env, retriever_ok, generator_ok) ==
    /\ service = "unconstructed"
    /\ LET init == RAGService_init(post_init(args, env), retriever_ok, generator_ok)
       IN  /\ service' = IF ~import_ok THEN "stub"
                         ELSE IF init.error = "none" THEN "RAGService"
                         ELSE "None"
           /\ last' = [op |-> "RAGService", id |-> "", arg |-> 0,
                       res |-> IF import_ok THEN init.error ELSE "none",
                       components |-> IF import_ok THEN init.components ELSE {},
                       imported |-> import_ok, args |-> args, env |-> env]
    /\ UNCHANGED <<now, rlvars, cachevars, thvars, rag, tasks, runner, work, ended_at,
                   accepted, lock, cleanup_loop>>

(***************************************************************************)
(* Retrieval and generation                                                *)
(***************************************************************************)
\* the filter the vector store is searched with: as_retriever is given
\* search_kwargs k only, and the chain is invoked with the query alone
search_filter(user_id) ==
    <<>>

\* the vector store returns stored documents that pass the filter it is given
IndexReturns(filter, docs) ==
    filter = <<>> \/ \A i \in DOMAIN docs : <<docs[i].owner>> = filter

\* ResponseGenerator.generate: the chain's result, or GenerationError
generate(out) ==
    IF out.kind = "ok"
    THEN [raised |-> FALSE, exc |-> <<>>, result |-> out.answer,
          source_documents |-> out.docs]
    ELSE [raised |-> TRUE, exc |-> <<"Failed to generate response: ", out.msg>>,
          result |-> <<>>, source_documents |-> <<>>]

\* mutant: the content is cut one unit early, at content_limit already
SourceDocument_cutearly(doc) ==
    [content |-> IF doc.len >= content_limit
                 THEN [text |-> SubSeq(PageContent(doc), 1, content_limit),
                       dots |-> TRUE]
                 ELSE [text |-> PageContent(doc), dots |-> FALSE],
     metadata |-> [owner |-> doc.owner, score |-> doc.score],
     relevance_score |-> IF doc.score = <<>> THEN 0 ELSE doc.score[1]]

\* SourceDocument built from one retrieved document: the content cut to
\* content_limit units with "..." appended when it was longer, the metadata,
\* and the score of the metadata or 0.0
SourceDocument(doc) ==
    [content |-> IF doc.len > content_limit
                 THEN [text |-> SubSeq(PageContent(doc), 1, content_limit),
                       dots |-> TRUE]
                 ELSE [text |-> PageContent(doc), dots |-> FALSE],
     metadata |-> [owner |-> doc.owner, score |-> doc.score],
     relevance_score |-> IF doc.score = <<>> THEN 0 ELSE doc.score[1]]

\* the loop that converts the retrieved documents, in their order
SourceDocuments(docs) ==
    [i \in DOMAIN docs |-> SourceDocument(docs[i])]

RAGResponse(query, result, sources, processing_time) ==
    [query |-> query, result |-> result, sources |-> sources,
     processing_time |-> processing_time]

\* DocumentRetriever.retrieve_documents: the list of SourceDocument, or
\* RetrievalError
retrieve_documents(query, user_id, out) ==
    IF out.kind = "ok"
    THEN [raised |-> FALSE, exc |-> <<>>,
          response |-> [sources |-> SourceDocuments(out.docs)]]
    ELSE [raised |-> TRUE, exc |-> <<"Failed to retrieve documents: ", out.msg>>,
          response |-> [sources |-> <<>>]]

\* mutant: generate_response without its try/except
generate_response_notry(query, user_id, out, elapsed) ==
    LET g == generate(out)
    IN  IF g.raised
        THEN [raised |-> TRUE, exc |-> g.exc, response |-> <<>>]
        ELSE [raised |-> FALSE, exc |-> <<>>,
              response |-> RAGResponse(query, g.result,
                              SourceDocuments(g.source_documents), <<elapsed>>)]

\* generate_response(query, user_id): raised says whether an exception leaves
\* the call; user_id is not used
generate_response(query, user_id, out, elapsed) ==
    LET g == generate(out)
    IN  IF g.raised
        THEN [raised |-> FALSE, exc |-> <<>>,
              response |-> RAGResponse(query,
                              <<"I encountered an error processing your request: ">>
                                  \o g.exc,
                              <<>>, <<elapsed>>)]
        ELSE [raised |-> FALSE, exc |-> <<>>,
              response |-> RAGResponse(query, g.result,
                              SourceDocuments(g.source_documents), <<elapsed>>)]

\* mutant: the audio paragraph is appended before the image paragraph
enhance_response_audiofirst(response, request) ==
    RAGResponse(response.query,
                response.result
                    \o (IF request.audio_data = "bytes"
                        THEN <<"\n\n", "[Audio context processed]">> ELSE <<>>)
                    \o (IF request.image_data = "bytes"
                        THEN <<"\n\n", "[Image context processed]">> ELSE <<>>)
                    \o (IF request.video_data = "bytes"
                        THEN <<"\n\n", "[Video context processed]">> ELSE <<>>),
                response.sources, response.processing_time)

\* MultiModalProcessor.enhance_response: a paragraph per modality whose data
\* is truthy, in the order image, audio, video
enhance_response(response, request) ==
    RAGResponse(response.query,
                response.result
                    \o (IF request.image_data = "bytes"
                        THEN <<"\n\n", "[Image context processed]">> ELSE <<>>)
                    \o (IF request.audio_data = "bytes"
                        THEN <<"\n\n", "[Audio context processed]">> ELSE <<>>)
                    \o (IF request.video_data = "bytes"
                        THEN <<"\n\n", "[Video context processed]">> ELSE <<>>),
                response.sources, response.processing_time)

\* generate_multimodal_response(request); its except branch answers without
\* a processing_time
generate_multimodal_response(request, out, elapsed) ==
    LET base_response == generate_response(request.query, request.user_id, out,
                                           elapsed)
    IN  IF base_response.raised
        THEN [raised |-> FALSE, exc |-> <<>>,
              response |-> RAGResponse(request.query,
                              <<"I encountered an error processing your multi-modal request: ">>
                                  \o base_response.exc,
                              <<>>, <<>>)]
        ELSE [raised |-> FALSE, exc |-> <<>>,
              response |-> enhance_response(base_response.response, request)]

\* the /rag/generate route of main.py. The RAGService object returns a
\* RAGResponse dataclass, which has no get method: response.get raises
\* AttributeError inside the route's try, and the except branch answers 500.
\* The stub class returns a dict.
rag_generate_route(kind, query, user_id, out, elapsed) ==
    IF kind = "None"
    THEN [raised |-> FALSE, exc |-> <<>>,
          response |-> [status |-> 500, response |-> <<>>, sources |-> <<>>,
                        detail |-> <<"RAG service is not available">>]]
    ELSE IF kind = "stub"
    THEN [raised |-> FALSE, exc |-> <<>>,
          response |-> [status |-> 200, response |-> <<"(RAG unavailable)">>,
                        sources |-> <<>>, detail |-> <<>>]]
    ELSE LET response == generate_response(query, user_id, out, elapsed)
         IN  [raised |-> FALSE, exc |-> <<>>,
              response |-> [status |-> 500, response |-> <<>>, sources |-> <<>>,
                            detail |-> <<"Response generation failed: ">>
                                \o (IF response.raised THEN response.exc
                                    ELSE <<"'RAGResponse' object has no attribute 'get'">>)]]

ServiceCalls ==
    {"generate_response", "generate_multimodal_response", "retrieve_documents"}

\* a call of the service, of its retriever or of the route begins:
\* start_time = time.time()
RagCallStarts(op, request) ==
    /\ rag = NoRagCall
    /\ IF op \in ServiceCalls THEN service = "RAGService"
       ELSE service \in {"RAGService", "stub", "None"}
    /\ op # "generate_multimodal_response" => request \in PlainRequests
    /\ rag' = [op |-> op, request |-> request, start_time |-> now]
    /\ last' = NoCall
    /\ UNCHANGED <<now, rlvars, cachevars, thvars, service, tasks, runner, work,
                   ended_at, accepted, lock, cleanup_loop>>

\* the call in progress returns, the vector store and the chain having done
\* out; base is the response of generate_response as it is after the call
RagCallReturns(out) ==
    /\ rag # NoRagCall
    /\ IndexReturns(search_filter(rag.request.user_id), out.docs)
    /\ LET elapsed == now - rag.start_time
           query == rag.request.query
           user_id == rag.request.user_id
           base == generate_response(query, user_id, out, elapsed)
           r == CASE rag.op = "generate_response" -> base
                  [] rag.op = "generate_multimodal_response" ->
                        generate_multimodal_response(rag.request, out, elapsed)
                  [] rag.op = "retrieve_documents" ->
                        retrieve_documents(query, user_id, out)
                  [] OTHER ->
                        rag_generate_route(service, query, user_id, out, elapsed)
       IN  last' = [op |-> rag.op, id |-> query, arg |-> elapsed,
                    res |-> r.response, raised |-> r.raised, out |-> out,
                    request |-> rag.request, base |-> base.response,
                    filter |-> search_filter(user_id), kind |-> service]
    /\ rag' = NoRagCall
    /\ UNCHANGED <<now, rlvars, cachevars, thvars, service, tasks, runner, work,
                   ended_at, accepted, lock, cleanup_loop>>

(***************************************************************************)
(* The clock                                                               *)
(***************************************************************************)
Tick ==
    /\ now < MaxTime
    /\ now' = now + 1
    /\ last' = NoCall
    /\ UNCHANGED <<rlvars, svcvars, lock, cleanup_loop, tasks, runner, work, ended_at, accepted>>

(***************************************************************************)
(* Specifications                                                          *)
(***************************************************************************)
Init ==
    /\ now = 1
    /\ request_counts = [c \in Clients |-> <<>>]
    /\ reqs = <<>>
    /\ tasks = <<>>
    /\ runner = [id \in TaskIds |-> "none"]
    /\ work = [id \in TaskIds |-> NoWork]
    /\ ended_at = [id \in TaskIds |-> 0]
    /\ accepted = [id \in TaskIds |-> 0]
    /\ last = NoCall
    /\ lock = "free"
    /\ cleanup_loop = "sleeping"
    /\ cache = <<>>
    /\ expiry = <<>>
    /\ written = [k \in Keys |-> NoWrite]
    /\ rag = NoRagCall
    /\ service = "unconstructed"
    /\ cache_lock = "free"
    /\ frame = [t \in Threads |-> NoFrame]

NextRL ==
    \/ \E c \in Clients : RateLimitMiddleware(c)
    \/ \E i \in 1..MaxReq, s \in HandlerStatuses : CallNextReturns(i, s)
    \/ \E i \in 1..MaxReq : MonitoringExcept(i)
    \/ Tick

NextTM ==
    \/ \E id \in TaskIds, coro \in WorkUnits : CreateTask(id, coro)
    \/ \E id \in TaskIds : RunnerStart(id)
    \/ \E id \in TaskIds : RunnerFinish(id)
    \/ \E m \in 0..MaxAge : CleanupCompletedTasks(m)
    \/ Tick

\* the task manager together with its periodic reaper and the status route
NextTMOps ==
    \/ NextTM
    \/ \E fails \in BOOLEAN : CleanupLoop(fails)
    \/ \E id \in TaskIds : GetTaskStatus(id)

NextCache ==
    \/ \E key \in Keys : Get(key)
    \/ \E key \in Keys, value \in Values, ttl \in Ttls : Set(key, value, ttl)
    \/ \E key \in Keys : Delete(key)
    \/ Clear
    \/ Tick

NextThreads ==
    \/ \E t \in Threads, call \in ThreadCalls : CallStarts(t, call)
    \/ \E t \in Threads : Acquire(t)
    \/ \E t \in Threads : Statement(t)
    \/ \E t \in Threads : Return(t)
    \/ Tick

NextMemo ==
    \/ \E key \in Keys, value \in Values : CachedCall(key, value)
    \/ Tick

StartupInputs ==
    \E import_ok, retriever_ok, generator_ok \in BOOLEAN :
        \E args, env \in ConfigArgs :
            Startup(import_ok, args, env, retriever_ok, generator_ok)

\* the service and the route, the chain returning at most one document
NextRAG ==
    \/ StartupInputs
    \/ \E op \in {"generate_response", "generate_multimodal_response",
                   "/rag/generate"},
          request \in Requests : RagCallStarts(op, request)
    \/ \E out \in {o \in Outcomes : Len(o.docs) <= 1} : RagCallReturns(out)
    \/ Tick

\* the retriever and the service with every list of retrieved documents
NextRetrieval ==
    \/ StartupInputs
    \/ \E op \in {"retrieve_documents", "generate_response"},
          request \in PlainRequests : RagCallStarts(op, request)
    \/ \E out \in Outcomes : RagCallReturns(out)
    \/ Tick

Next == NextRAG \/ NextRetrieval \/ NextThreads \/ NextMemo \/ NextRL \/ NextTMOps \/ NextCache

Spec == Init /\ [][Next]_vars
SpecRL == Init /\ [][NextRL]_vars
SpecTM == Init /\ [][NextTM]_vars
SpecTMOps == Init /\ [][NextTMOps]_vars
SpecCache == Init /\ [][NextCache]_vars
SpecThreads == Init /\ [][NextThreads]_vars
SpecMemo == Init /\ [][NextMemo]_vars
SpecRAG == Init /\ [][NextRAG]_vars
SpecRetrieval == Init /\ [][NextRetrieval]_vars

\* The event loop runs every scheduled runner, and a unit of work that ends
\* resumes its runner.
SpecTMFair ==
    /\ SpecTM
    /\ \A id \in TaskIds : WF_vars(RunnerStart(id)) /\ WF_vars(RunnerFinish(id))

(***************************************************************************)
(* Rate limiter properties                                                 *)
(***************************************************************************)
CallsOf(c) == {i \in 1..Len(reqs) : reqs[i].client = c}
AdmittedOf(c) == {i \in CallsOf(c) : reqs[i].allowed}

\* no admitted call of the same client lies less than a window before call s
WindowEmptyAt(s) ==
    \A j \in AdmittedOf(reqs[s].client) :
        j < s => reqs[s].at - reqs[j].at >= window_seconds

\* C1: starting from an empty window of a client, among its calls made less
\* than window_seconds after the first one exactly the first
\* requests_per_minute return true and every further one returns false; a
\* call made once the window has fully elapsed since the admitted calls
\* starts from an empty window again and returns true.
C1_FirstNThenReject ==
    \A s \in 1..Len(reqs) : \A j \in CallsOf(reqs[s].client) :
        (s <= j /\ WindowEmptyAt(s) /\ reqs[j].at - reqs[s].at < window_seconds)
        => (reqs[j].allowed
            <=> Cardinality({k \in CallsOf(reqs[s].client) : s <= k /\ k < j})
                    < requests_per_minute)

C1_Witness ==
    \E s, r, j \in 1..Len(reqs) :
        /\ s < r /\ r < j
        /\ reqs[r].client = reqs[s].client /\ reqs[j].client = reqs[s].client
        /\ WindowEmptyAt(s) /\ reqs[s].allowed
        /\ ~reqs[r].allowed /\ reqs[r].at - reqs[s].at < window_seconds
        /\ WindowEmptyAt(j) /\ reqs[j].allowed

\* C2: for every client and every instant t, at most requests_per_minute
\* admitted calls have their instant in the trailing window (t - W, t].
C2_SlidingWindowBound ==
    \A c \in Clients : \A t \in 1..MaxTime :
        Cardinality({i \in AdmittedOf(c) :
                        t - window_seconds < reqs[i].at /\ reqs[i].at <= t})
            <= requests_per_minute

C2_Witness ==
    \E c \in Clients :
        /\ Cardinality(AdmittedOf(c)) > requests_per_minute
        /\ \E i \in CallsOf(c) : ~reqs[i].allowed

\* the instants of the admitted calls of c, in call order
RECURSIVE AdmittedInstants(_, _)
AdmittedInstants(c, n) ==
    IF n = 0 THEN <<>>
    ELSE IF reqs[n].client = c /\ reqs[n].allowed
         THEN Append(AdmittedInstants(c, n - 1), reqs[n].at)
         ELSE AdmittedInstants(c, n - 1)

InWindow(ts) == now - ts < window_seconds

\* C3: with requests of one client in flight concurrently, the instants the
\* limiter retains inside the current window are exactly the instants of the
\* admitted calls (none lost, none doubled), and there are at most
\* requests_per_minute of them.
C3_ExactWindowCount ==
    \A c \in Clients :
        /\ SelectSeq(request_counts[c], InWindow)
               = SelectSeq(AdmittedInstants(c, Len(reqs)), InWindow)
        /\ Len(SelectSeq(AdmittedInstants(c, Len(reqs)), InWindow))
               <= requests_per_minute

C3_Witness ==
    \E i, j \in 1..Len(reqs) :
        /\ i # j /\ reqs[i].client = reqs[j].client
        /\ reqs[i].pc = "call_next" /\ reqs[j].pc = "raised"
        /\ reqs[i].at = reqs[j].at

\* C4 (as claimed): every rejected request is answered with a 429 response and
\* never reaches call_next; every admitted request reaches call_next once.
C4_RejectedAnswered429 ==
    \A i \in 1..Len(reqs) :
        reqs[i].pc = "done" =>
            IF reqs[i].allowed
            THEN reqs[i].next_calls = 1
            ELSE /\ reqs[i].next_calls = 0
                 /\ reqs[i].kind = "response"
                 /\ reqs[i].status = HTTP_429_TOO_MANY_REQUESTS
                 /\ reqs[i].logged = HTTP_429_TOO_MANY_REQUESTS

(***************************************************************************)
(* TaskManager properties                                                  *)
(***************************************************************************)
Terminal == {"completed", "failed"}
Transitions ==
    { <<"pending", "running">>, <<"running", "completed">>,
      <<"running", "failed">> }

\* C5: while a task stays in the table its status changes only along
\* pending -> running -> completed or pending -> running -> failed.
C5_StatusTransitions ==
    [][\A id \in DOMAIN tasks \cap DOMAIN tasks' :
          \/ tasks'[id].status = tasks[id].status
          \/ <<tasks[id].status, tasks'[id].status>> \in Transitions]_vars

C5_Witness ==
    /\ DOMAIN tasks = TaskIds
    /\ tasks["a"].status = "completed"
    /\ tasks["b"].status = "failed"

\* C6: under fair scheduling a task whose unit of work returns becomes
\* completed with that result stored, and a task whose unit of work raises
\* becomes failed with the error text stored.
C6_EventuallyTerminal ==
    \A id \in TaskIds : \A u \in WorkUnits :
        (id \in DOMAIN tasks /\ work[id] = u /\ u.kind \in {"ok", "raise"})
        ~> (/\ id \in DOMAIN tasks
            /\ IF u.kind = "ok"
               THEN tasks[id].status = "completed" /\ tasks[id].result = u.val
               ELSE /\ tasks[id].status = "failed"
                    /\ "error" \in DOMAIN tasks[id]
                    /\ tasks[id].error = u.val)

C6_Witness ==
    /\ DOMAIN tasks = TaskIds
    /\ tasks["a"].status = "completed" /\ tasks["a"].result = "r1"
    /\ tasks["b"].status = "failed" /\ "error" \in DOMAIN tasks["b"]
    /\ tasks["b"].error = "boom"

\* C7 (as claimed): when cleanup_completed_tasks(max_age) has returned, no
\* completed and no failed task that ended more than max_age seconds earlier
\* is left in the table.
C7_ReapRemovesEveryTerminal ==
    last.op = "cleanup_completed_tasks" =>
        \A id \in DOMAIN tasks :
            tasks[id].status \in Terminal => ~(now - ended_at[id] > last.arg)

\* C8 (as claimed): create_task accepts a task id at most once in a run.
C8_IdAcceptedOnce ==
    \A id \in TaskIds : accepted[id] <= 1

\* C9: a create_task call for an id present in the table raises ValueError
\* and leaves the table, the runners and the units of work as they were.
C9_DuplicateChangesNothing ==
    [][(last'.op = "create_task" /\ last'.id \in DOMAIN tasks)
          => /\ last'.res = "ValueError"
             /\ UNCHANGED <<tasks, runner, work, ended_at, accepted>>]_vars

C9_Witness ==
    /\ last.op = "create_task" /\ last.res = "ValueError"
    /\ tasks[last.id].status = "running"

\* C10: when create_task returns the record is in the table with status
\* pending and the unit of work has not been started: it waits for its own
\* runner, scheduled on the loop, whatever the unit of work does later.
C10_ReturnsBeforeWork ==
    (last.op = "create_task" /\ last.res = "ok")
        => /\ last.id \in DOMAIN tasks
           /\ tasks[last.id].status = "pending"
           /\ runner[last.id] = "scheduled"
           /\ ended_at[last.id] = 0

C10_Witness ==
    /\ last.op = "create_task" /\ last.res = "ok"
    /\ work[last.id].kind = "hang"
    /\ \E id \in DOMAIN tasks : id # last.id /\ tasks[id].status = "running"
                                /\ work[id].kind = "hang"

\* C11: for every task in the table, completed_at is set only in a terminal
\* status, result is present (not None) exactly in status completed, and
\* error is present exactly in status failed.
C11_FieldsMatchStatus ==
    \A id \in DOMAIN tasks :
        LET t == tasks[id]
        IN  /\ "completed_at" \in DOMAIN t => t.status \in Terminal
            /\ t.result # None <=> t.status = "completed"
            /\ "error" \in DOMAIN t <=> t.status = "failed"

ReapCalls == {"cleanup_completed_tasks", "_cleanup_loop"}

\* C12: a reap pass with age max_age removes a task only if its completed_at
\* lies before now - max_age, so never a pending or running task and never
\* one that ended at most max_age ago, adds nothing, and leaves every record
\* it keeps as it was.
C12_ReapFrame ==
    [][last'.op \in ReapCalls =>
          /\ DOMAIN tasks' \subseteq DOMAIN tasks
          /\ \A id \in DOMAIN tasks :
                IF id \in DOMAIN tasks'
                THEN tasks'[id] = tasks[id]
                ELSE /\ "completed_at" \in DOMAIN tasks[id]
                     /\ tasks[id].completed_at < now - last'.arg
                     /\ tasks[id].status \in Terminal
                     /\ now - ended_at[id] > last'.arg
          /\ UNCHANGED <<runner, work>>]_vars

C12_Witness ==
    /\ last.op = "cleanup_completed_tasks" /\ last.arg = 1
    /\ accepted["a"] > 0 /\ "a" \notin DOMAIN tasks
    /\ "b" \in DOMAIN tasks /\ tasks["b"].status = "completed"
    /\ now - tasks["b"].completed_at = 1

\* C13: the manager's lock is free whenever a step ends, in particular while
\* units of work are pending or running, so a reap pass with any age can run
\* at once; and the periodic loop is alive after every pass, failed or not.
C13_ReaperNeverBlocked ==
    /\ lock = "free"
    /\ cleanup_loop = "sleeping"
    /\ \A m \in 0..MaxAge : ENABLED CleanupCompletedTasks(m)
    /\ ENABLED CleanupLoop(FALSE)

C13_Witness ==
    /\ last.op = "_cleanup_loop" /\ last.res = "logged"
    /\ \E id, other \in DOMAIN tasks :
          /\ tasks[id].status = "running" /\ work[id].kind = "hang"
          /\ tasks[other].status = "pending"

\* C14: a status query changes nothing; for an id not in the table (never
\* submitted, or reaped) it returns None and the route answers 404; for an id
\* in the table it returns that task's current record.
C14_StatusQuery ==
    [][last'.op = "get_task_status" =>
          /\ UNCHANGED <<tasks, runner, work, lock>>
          /\ IF last'.id \in DOMAIN tasks
             THEN /\ last'.res = "record" /\ last'.rec = tasks[last'.id]
                  /\ last'.arg = 200
             ELSE last'.res = None /\ last'.arg = 404]_vars

C14_Witness ==
    /\ last.op = "get_task_status" /\ last.res = None
    /\ accepted[last.id] > 0
    /\ \E id \in TaskIds : accepted[id] = 0

(***************************************************************************)
(* InMemoryCache properties                                                *)
(***************************************************************************)
\* the lifetime a caller asks for: the ttl it passes, or the default
RequestedTtl(ttl) ==
    IF ttl = <<>> THEN default_ttl ELSE ttl[1]

\* C15: a get(k) made before the ttl of the latest set(k, v, ttl) has elapsed
\* returns v, whatever was done to other keys in between.
C15_RoundTrip ==
    (/\ last.op = "get"
     /\ written[last.id].by = "set"
     /\ now - written[last.id].at < RequestedTtl(written[last.id].ttl))
    => last.res = written[last.id].v

C15_Witness ==
    /\ last.op = "get"
    /\ written[last.id].by = "set"
    /\ written[last.id].at < now
    /\ now - written[last.id].at < RequestedTtl(written[last.id].ttl)
    /\ last.res = written[last.id].v /\ last.res # None
    /\ \E other \in Keys \ {last.id} :
          written[other].by = "set" /\ other \notin DOMAIN cache

\* C16: get(k) on a stored entry returns the stored value at every instant
\* before expiresAt and absent at every instant from expiresAt on.
C16_VisibleIffBeforeExpiry ==
    (last.op = "get" /\ last.exp # <<>>)
    => IF now < last.exp[1] THEN last.res = last.stored ELSE last.res = None

C18_TtlOverridesDefault ==
    last.op = "set" => expiry[last.id] = now + RequestedTtl(last.ttl)

\* C19: a call of a wrapped function made within the ttl window of an earlier
\* call with the same arguments returns that call's result and does not
\* invoke the wrapped function.
C19_SecondCallBypasses ==
    (/\ last.op = "cache_result"
     /\ last.prev.by = "cache_result"
     /\ now - last.prev.at < RequestedTtl(last.prev.ttl))
    => last.arg = 0 /\ last.res = last.prev.v

(***************************************************************************)
(* RAGService properties                                                   *)
(***************************************************************************)
Pieces(text) == { text[i] : i \in DOMAIN text }

RagCalls == {"generate_response", "generate_multimodal_response"}

\* C20: every call of generate_response and generate_multimodal_response
\* returns a RAGResponse for the query and lets no exception out; when the
\* generation failed the response has no sources, a non-empty answer that
\* contains the failure description, and the elapsed time as processing_time.
C20_NeverThrows ==
    last.op \in RagCalls =>
        /\ ~last.raised
        /\ DOMAIN last.res = {"query", "result", "sources", "processing_time"}
        /\ last.res.query = last.id
        /\ last.res.result # <<>>
        /\ last.out.kind = "raise" =>
              /\ last.res.sources = <<>>
              /\ last.out.msg \in Pieces(last.res.result)
              /\ "Failed to generate response: " \in Pieces(last.res.result)
              /\ last.res.processing_time = <<last.arg>>

C20_Witness ==
    /\ last.op = "generate_multimodal_response"
    /\ last.out.kind = "raise" /\ last.out.msg = "timeout"
    /\ last.request.image_data = "bytes"
    /\ last.arg > 0
    /\ ~last.raised /\ last.res.sources = <<>>

(***************************************************************************)
(* Rate limiter properties, continued                                      *)
(***************************************************************************)
\* C25 (as claimed): in every reachable state and for every client, every
\* retained instant t has now - t < window_seconds, and at most
\* requests_per_minute instants are retained.
C25_RetainedAllFresh ==
    \A c \in Clients :
        /\ \A i \in DOMAIN request_counts[c] :
              now - request_counts[c][i] < window_seconds
        /\ Len(request_counts[c]) <= requests_per_minute

\* C25 (amended): in every state in which client c has made an is_allowed
\* call at the current instant, every instant retained for c has
\* now - t < window_seconds; and in every reachable state, for every client,
\* at most requests_per_minute instants are retained.
C25_RetainedFreshAfterCall ==
    \A c \in Clients :
        /\ (\E i \in CallsOf(c) : reqs[i].at = now) =>
              \A i \in DOMAIN request_counts[c] :
                  now - request_counts[c][i] < window_seconds
        /\ Len(request_counts[c]) <= requests_per_minute

C25_Witness ==
    \E c \in Clients : \E i, j \in AdmittedOf(c) :
        /\ i < j /\ reqs[j].at = now
        /\ now - reqs[i].at >= window_seconds
        /\ Len(request_counts[c]) = 1
        /\ \E o \in Clients \ {c} : \E k \in DOMAIN request_counts[o] :
              now - request_counts[o][k] >= window_seconds

\* C30: an is_allowed(c) call leaves the list of every other client as it
\* was; a rejected call leaves c the pruned list and records no instant, an
\* admitted call appends the current instant to it; and the decision is
\* "fewer than requests_per_minute earlier admitted calls of c lie inside
\* the window", whatever calls were rejected and whatever other clients did.
C30_RejectedLeavesNoTrace ==
    [][Len(reqs') = Len(reqs) + 1 =>
          LET r == reqs'[Len(reqs')]
              c == r.client
              kept == SelectSeq(request_counts[c], InWindow)
          IN  /\ \A o \in Clients \ {c} : request_counts'[o] = request_counts[o]
              /\ request_counts'[c] = IF r.allowed THEN Append(kept, now) ELSE kept
              /\ r.allowed <=>
                    Cardinality({j \in AdmittedOf(c) : InWindow(reqs[j].at)})
                        < requests_per_minute]_vars

C30_Witness ==
    \E i, j \in 1..Len(reqs) :
        /\ i < j /\ j = Len(reqs)
        /\ reqs[j].client # reqs[i].client
        /\ ~reqs[i].allowed /\ reqs[j].allowed
        /\ reqs[i].at = now /\ reqs[j].at = now
        /\ Len(request_counts[reqs[i].client]) = requests_per_minute

(***************************************************************************)
(* Retrieval, enhancement, construction and route properties               *)
(***************************************************************************)
RetrievalCalls == {"retrieve_documents", "generate_response"}

\* C21: a retrieval made for user u searches the vector store with the owner
\* filter u, and every source it returns belongs to u.
C21_OwnerScoped ==
    (/\ last.op \in RetrievalCalls
     /\ ~last.raised
     /\ last.request.user_id # <<>>)
    => /\ last.filter = last.request.user_id
       /\ \A i \in DOMAIN last.res.sources :
             <<last.res.sources[i].metadata.owner>> = last.request.user_id

\* the context paragraphs enhance_response owes a request, in order
Paragraphs(request) ==
    SelectSeq(<<[data |-> request.image_data, text |-> "[Image context processed]"],
                [data |-> request.audio_data, text |-> "[Audio context processed]"],
                [data |-> request.video_data, text |-> "[Video context processed]"]>>,
              LAMBDA m : m.data = "bytes")

C23_SourcesDescending ==
    (last.op \in RetrievalCalls /\ ~last.raised)
    => \A i \in DOMAIN last.res.sources :
          i + 1 \in DOMAIN last.res.sources =>
              last.res.sources[i].relevance_score
                  >= last.res.sources[i + 1].relevance_score

\* C24: constructing RAGService raises ConfigurationError, with no component
\* constructed, exactly when neither argument nor environment gives the
\* vector store url or none gives an OpenAI or OpenRouter key; any other
\* failure of construction is not a ConfigurationError, and a construction
\* that succeeds has built the retriever and the generator.
C24_FailFast ==
    (last.op = "RAGService" /\ last.imported) =>
        LET url == last.args.weaviate_url \/ last.env.weaviate_url
            key == \/ last.args.openai_api_key \/ last.env.openai_api_key
                   \/ last.args.openrouter_api_key \/ last.env.openrouter_api_key
        IN  /\ (~url \/ ~key) =>
                  /\ last.res = "ConfigurationError"
                  /\ last.components = {}
                  /\ service = "None"
            /\ last.res = "ConfigurationError" => (~url \/ ~key)
            /\ last.res = "none" <=> service = "RAGService"
            /\ last.res = "none" => last.components = {"retriever", "generator"}

C24_Witness ==
    /\ last.op = "RAGService" /\ last.imported
    /\ last.res = "ConfigurationError"
    /\ last.env.weaviate_url /\ ~last.args.weaviate_url
    /\ ~last.args.openai_api_key /\ ~last.env.openai_api_key
    /\ ~last.args.openrouter_api_key /\ ~last.env.openrouter_api_key

\* C26: a /rag/generate request handled by a constructed RAGService is
\* answered 200 with the answer text and the sources of generate_response,
\* degraded results included.
C26_RouteAnswers ==
    (last.op = "/rag/generate" /\ last.kind = "RAGService")
    => /\ last.res.status = 200
       /\ last.res.response = last.base.result
       /\ last.res.sources = last.base.sources

\* C27: the documents the vector store or the chain returns are converted
\* one to one and in order: the content is the page_content when that is at
\* most content_limit long, and its first content_limit units followed by
\* "..." when it is longer; relevance_score is the score of the metadata, or
\* 0.0 without one.
C27_ConvertedOneToOne ==
    (last.op \in RetrievalCalls /\ last.out.kind = "ok")
    => /\ ~last.raised
       /\ Len(last.res.sources) = Len(last.out.docs)
       /\ \A i \in DOMAIN last.out.docs :
             LET doc == last.out.docs[i]
                 src == last.res.sources[i]
             IN  /\ src.metadata.owner = doc.owner
                 /\ Len(src.content.text) = IF doc.len <= content_limit
                                            THEN doc.len ELSE content_limit
                 /\ \A j \in DOMAIN src.content.text : src.content.text[j] = j
                 /\ src.content.dots <=> doc.len > content_limit
                 /\ src.relevance_score = IF doc.score = <<>> THEN 0
                                          ELSE doc.score[1]

C27_Witness ==
    /\ last.op = "generate_response" /\ last.out.kind = "ok"
    /\ Len(last.res.sources) = 2
    /\ last.out.docs[1].len = content_limit /\ ~last.res.sources[1].content.dots
    /\ last.out.docs[2].len > content_limit /\ last.res.sources[2].content.dots
    /\ last.out.docs[1].score = <<>> /\ last.out.docs[2].score # <<>>

(***************************************************************************)
(* Runner and reaper                                                       *)
(***************************************************************************)
\* a _runner that still has a line of its body to execute
Active(task_id) == runner[task_id] \in {"scheduled", "awaiting"}

\* C29: under every interleaving of the runners with
\* cleanup_completed_tasks, a runner that still has a step to take finds its
\* record in the table and the record carries no completed_at; a step of a
\* runner neither adds nor removes a record; and a record leaves the table
\* only once its runner has made its final write (completed_at) and is done.
C29_RunnerReaperRaceFree ==
    [][ /\ \A id \in TaskIds :
            (runner'[id] \in {"scheduled", "awaiting"}) =>
                /\ id \in DOMAIN tasks'
                /\ ~HasCompletedAt(tasks'[id])
        /\ \A id \in TaskIds :
            (Active(id) /\ runner'[id] # runner[id]) =>
                /\ id \in DOMAIN tasks
                /\ DOMAIN tasks' = DOMAIN tasks
        /\ \A id \in DOMAIN tasks \ DOMAIN tasks' :
                /\ HasCompletedAt(tasks[id])
                /\ runner[id] = "done"
                /\ runner'[id] = "done" ]_vars

\* a pass of the reaper has just removed a finished task while the runner of
\* another task was still awaiting its unit of work
C29_Witness ==
    /\ last.op = "cleanup_completed_tasks"
    /\ \E id \in TaskIds :
        /\ id \notin DOMAIN tasks
        /\ runner[id] = "done"
        /\ ended_at[id] > 0
    /\ \E id \in DOMAIN tasks : runner[id] = "awaiting"

(***************************************************************************)
(* Cache under concurrent callers                                          *)
(***************************************************************************)
\* Under every interleaving only the thread that holds the lock is inside a
\* method body; whenever no call is inside a body the value map and the
\* expiry map hold the same keys; no call raises; and a get(k) that returns
\* a value returns the value of the latest set(k) that no delete(k) or
\* clear() undid.
LockSerialises ==
    /\ \A t \in Threads :
        frame[t].pc \notin {"idle", "enter"} => cache_lock = t
    /\ cache_lock = "free" => DOMAIN cache = DOMAIN expiry
    /\ \A t \in Threads : frame[t].res # "KeyError"
    /\ (last.op = "get" /\ last.res # None) =>
        /\ written[last.id].by = "set"
        /\ last.res = written[last.id].v

\* C28: under every interleaving of concurrent get, set, delete and clear
\* calls each operation takes effect atomically: the two maps hold the same
\* keys, and every get(k) returns absent or the value of the latest set(k)
\* not followed by delete(k), clear() or expiry, so the expiry test of a get
\* lets a value through only before the instant the entry expires.
C28_AtomicOperations ==
    /\ []LockSerialises
    /\ [][\A t \in Threads :
            (frame[t].pc = "get_expired" /\ frame'[t].pc = "get_return")
                => now < expiry[frame[t].key]]_vars

====
